---------------------------- MODULE Spec2Model ----------------------------
(***************************************************************************)
(* A model of the FinLife Navigator query pipeline: the rule-based planner  *)
(* (agents/planner.py), the portfolio allocation handler                   *)
(* (agents/investment_agent.py) with the helpers it calls                  *)
(* (agents/finance_utils.py, agents/plaid_service.py,                      *)
(* agents/openai_utils.py), the other handlers, and the orchestration      *)
(* graph that cli.py invokes.                                              *)
(*                                                                         *)
(* Text is a sequence of one-character strings, so that a regular          *)
(* expression search is a real search over the characters of the query.    *)
(* Money is counted in cents, averages in 1/MoneyScale of a cent,          *)
(* percentages in 1/PctScale, confidences in hundredths.                   *)
(***************************************************************************)
EXTENDS Integers, Sequences, FiniteSets, TLC

VARIABLES
    pc,                    \* position of the run that is being modelled
    input,                 \* state["input"]: the query text
    plan,                  \* PlannerAgent.process's result, <<>> before it ran
    context,               \* state["context"] as the handlers read it
    env,                   \* what the environment of a handler call answered
    investment,            \* InvestmentAgent.process's outcome, <<>> before it ran
    pending,               \* handlers dispatched and not yet completed
    completed,             \* categories in the order their handlers completed
    results,               \* category -> HandlerResult of a completed handler
    intermediate_results,  \* state["intermediate_results"]: the ordered list
    final_result,          \* state["final_result"]
    confidence_score,      \* state["confidence_score"], <<>> for None
    explained              \* whether the explanation step ran

vars == <<pc, input, plan, context, env, investment, pending, completed,
          results, intermediate_results, final_result, confidence_score,
          explained>>

---------------------------------------------------------------------------
(* Bounds of the model.                                                    *)

\* The longest query of the planner specification, in vocabulary phrases.
MaxWords == 2
\* The longest query of the orchestration specification, in phrases.
MaxQueryWords == 2

---------------------------------------------------------------------------
(* Python values.                                                          *)

\* None, and an Optional value that is present.
None == <<>>
Some(x) == <<x>>

\* dict.get(key, default) on a mapping whose keys are its DOMAIN.
Get(d, key, default) == IF key \in DOMAIN d THEN d[key] ELSE default

\* dict.update: the keys of e override those of d.
Update(d, e) ==
    [k \in DOMAIN d \cup DOMAIN e |-> IF k \in DOMAIN e THEN e[k] ELSE d[k]]

EmptyDict == [k \in {} |-> 0]

RECURSIVE SumSeq(_)
SumSeq(s) == IF s = <<>> THEN 0 ELSE Head(s) + SumSeq(Tail(s))

RECURSIVE SumValues(_)
SumValues(d) ==
    IF DOMAIN d = {} THEN 0
    ELSE LET k == CHOOSE x \in DOMAIN d : TRUE
         IN  d[k] + SumValues([j \in DOMAIN d \ {k} |-> d[j]])

Min(a, b) == IF a <= b THEN a ELSE b
Max(a, b) == IF a >= b THEN a ELSE b

---------------------------------------------------------------------------
(* Characters and str methods.                                             *)

Digits == <<"0","1","2","3","4","5","6","7","8","9">>
IsDigit(c) == c \in {Digits[i] : i \in 1..10}
DigitValue(c) == (CHOOSE i \in 1..10 : Digits[i] = c) - 1
\* \s of the re module, on the characters a query holds.
IsSpace(c) == c = " "

\* str.lower() on one character; the upper-case letters of the vocabulary.
LowerChar(c) ==
    CASE c = "B" -> "b"
      [] c = "E" -> "e"
      [] c = "P" -> "p"
      [] c = "R" -> "r"
      [] OTHER   -> c
Lower(s) == [i \in 1..Len(s) |-> LowerChar(s[i])]

\* s[i:] starts with kw.
MatchAt(kw, s, i) ==
    /\ i + Len(kw) - 1 <= Len(s)
    /\ \A j \in 1..Len(kw) : s[i + j - 1] = kw[j]

\* kw in s
Contains(kw, s) == \E i \in 1..Len(s) : MatchAt(kw, s, i)

StartsWith(s, prefix) == MatchAt(prefix, s, 1)

\* s.replace(",", "")
RECURSIVE RemoveCommas(_)
RemoveCommas(s) ==
    IF s = <<>> THEN <<>>
    ELSE IF Head(s) = "," THEN RemoveCommas(Tail(s))
    ELSE <<Head(s)>> \o RemoveCommas(Tail(s))

\* The end of the run of digits that starts at i (i - 1 when s[i] is no digit).
RECURSIVE DigitRunEnd(_, _)
DigitRunEnd(s, i) ==
    IF i <= Len(s) /\ IsDigit(s[i]) THEN DigitRunEnd(s, i + 1) ELSE i - 1

\* The first position at or after i that is not white space.
RECURSIVE SkipSpace(_, _)
SkipSpace(s, i) ==
    IF i <= Len(s) /\ IsSpace(s[i]) THEN SkipSpace(s, i + 1) ELSE i

\* The value of a string of decimal digits.
RECURSIVE DigitsValue(_)
DigitsValue(s) ==
    IF s = <<>> THEN 0
    ELSE 10 * DigitsValue(SubSeq(s, 1, Len(s) - 1)) + DigitValue(s[Len(s)])

AllDigits(s) == \A i \in 1..Len(s) : IsDigit(s[i])

\* s.strip()
RECURSIVE Strip(_)
Strip(s) ==
    IF s = <<>> THEN s
    ELSE IF IsSpace(Head(s)) THEN Strip(Tail(s))
    ELSE IF IsSpace(s[Len(s)]) THEN Strip(SubSeq(s, 1, Len(s) - 1))
    ELSE s

\* A sign and the rest of a numeric literal.
Sign(s) == IF s # <<>> /\ Head(s) = "-" THEN -1 ELSE 1
Unsigned(s) == IF s # <<>> /\ Head(s) \in {"-", "+"} THEN Tail(s) ELSE s

\* The position of the first "." of s, 0 when it has none.
DotAt(s) ==
    IF \E i \in 1..Len(s) : s[i] = "."
    THEN CHOOSE i \in 1..Len(s) : s[i] = "." /\ \A j \in 1..(i - 1) : s[j] # "."
    ELSE 0

\* The outcome of a conversion: a value, or ValueError.
Parsed(v) == [ok |-> TRUE, value |-> v]
ValueError == [ok |-> FALSE, value |-> 0]

\* float(s), in cents.  The decimal literals of Python: white space
\* stripped, an optional sign, digits with an optional "." and fraction
\* digits, at least one digit in all.  (The alphabet of the model holds no
\* exponent, "inf", "nan" or "_", and its literals carry at most two fraction
\* digits, so that a value is a whole number of cents.)
PyFloat(s) ==
    LET u == Unsigned(Strip(s))
        d == DotAt(u)
        ip == IF d = 0 THEN u ELSE SubSeq(u, 1, d - 1)
        fp == IF d = 0 THEN <<>> ELSE SubSeq(u, d + 1, Len(u))
        fv == IF Len(fp) = 0 THEN 0
              ELSE IF Len(fp) = 1 THEN 10 * DigitsValue(fp)
              ELSE DigitsValue(SubSeq(fp, 1, 2))
    IN  IF AllDigits(ip) /\ AllDigits(fp) /\ Len(ip) + Len(fp) > 0
        THEN Parsed(Sign(Strip(s)) * (100 * DigitsValue(ip) + fv))
        ELSE ValueError

\* int(s)
PyInt(s) ==
    LET u == Unsigned(Strip(s))
    IN  IF AllDigits(u) /\ Len(u) > 0
        THEN Parsed(Sign(Strip(s)) * DigitsValue(u))
        ELSE ValueError

---------------------------------------------------------------------------
(* The re module, for the patterns of the planner.  A pattern that is an   *)
(* alternation of literals is the sequence of its alternatives.            *)

\* re.search(pattern, s) is not None, for an alternation of literals.
ReSearch(pattern, s) == \E k \in 1..Len(pattern) : Contains(pattern[k], s)

\* any(keyword in s for keyword in keywords)
AnyIn(keywords, s) == \E k \in 1..Len(keywords) : Contains(keywords[k], s)

---------------------------------------------------------------------------
(* agents/planner.py                                                       *)

query_patterns == <<
    [query_type |-> "life_event", patterns |-> <<
        <<<<"v","a","c","a","t","i","o","n">>, <<"w","e","d","d","i","n","g">>, <<"b","a","b","y">>, <<"h","o","u","s","e">>, <<"c","a","r">>,
          <<"m","o","v","i","n","g">>, <<"r","e","t","i","r","e","m","e","n","t">>>>,
        <<<<"l","i","f","e"," ","e","v","e","n","t">>, <<"m","a","j","o","r"," ","p","u","r","c","h","a","s","e">>, <<"m","i","l","e","s","t","o","n","e">>>> >>],
    [query_type |-> "budget_optimization", patterns |-> <<
        <<<<"b","o","n","u","s">>, <<"r","a","i","s","e">>, <<"w","i","n","d","f","a","l","l">>, <<"e","x","t","r","a"," ","m","o","n","e","y">>,
          <<"o","p","t","i","m","i","z","e">>, <<"b","u","d","g","e","t">>>>,
        <<<<"a","l","l","o","c","a","t","e">>, <<"d","i","s","t","r","i","b","u","t","e">>, <<"s","p","e","n","d">>, <<"s","a","v","e">>>> >>],
    [query_type |-> "investment_analysis", patterns |-> <<
        <<<<"p","o","r","t","f","o","l","i","o">>, <<"s","t","o","c","k","s">>, <<"b","o","n","d","s">>, <<"i","n","v","e","s","t","m","e","n","t">>,
          <<"m","a","r","k","e","t">>, <<"r","e","t","u","r","n","s">>>>,
        <<<<"p","e","r","f","o","r","m","a","n","c","e">>, <<"a","n","a","l","y","s","i","s">>, <<"r","e","c","o","m","m","e","n","d","a","t","i","o","n">>>> >>],
    [query_type |-> "simulation", patterns |-> <<
        <<<<"w","h","a","t"," ","i","f">>, <<"s","c","e","n","a","r","i","o">>, <<"s","i","m","u","l","a","t","e">>, <<"p","r","e","d","i","c","t">>,
          <<"f","o","r","e","c","a","s","t">>>>,
        <<<<"j","o","b"," ","l","o","s","s">>, <<"c","a","r","e","e","r"," ","c","h","a","n","g","e">>, <<"e","m","e","r","g","e","n","c","y">>>> >>] >>

\* any(re.search(p, user_input, re.IGNORECASE) for p in patterns)
AnyPattern(patterns, user_input) ==
    \E p \in 1..Len(patterns) : ReSearch(patterns[p], user_input)

\* The loop of _classify_query from the i-th category on.
RECURSIVE ClassifyFrom(_, _)
ClassifyFrom(i, user_input) ==
    IF i > Len(query_patterns) THEN "general"
    ELSE IF AnyPattern(query_patterns[i].patterns, user_input)
         THEN query_patterns[i].query_type
         ELSE ClassifyFrom(i + 1, user_input)

\* A classifier that keeps the last matching category, not the first.
RECURSIVE ClassifyLastFrom(_, _)
ClassifyLastFrom(i, user_input) ==
    IF i < 1 THEN "general"
    ELSE IF AnyPattern(query_patterns[i].patterns, user_input)
         THEN query_patterns[i].query_type
         ELSE ClassifyLastFrom(i - 1, user_input)
_classify_query_last(user_input) ==
    ClassifyLastFrom(Len(query_patterns), user_input)

_classify_query(user_input) == ClassifyFrom(1, user_input)

\* The categories the list comprehension of _extract_context keeps.
MatchedCategories(user_input) ==
    {i \in 1..Len(query_patterns) :
        AnyPattern(query_patterns[i].patterns, user_input)}

\* The flag with "> 0" for "> 1".
requires_multiple_agents_any(user_input) ==
    Cardinality(MatchedCategories(user_input)) > 0

requires_multiple_agents(user_input) ==
    Cardinality(MatchedCategories(user_input)) > 1

\* (?:,\d{3})* from position i on: the position after the last group.
RECURSIVE ThousandsEnd(_, _)
ThousandsEnd(s, i) ==
    IF /\ i + 3 <= Len(s)
       /\ s[i] = ","
       /\ IsDigit(s[i + 1]) /\ IsDigit(s[i + 2]) /\ IsDigit(s[i + 3])
    THEN ThousandsEnd(s, i + 4)
    ELSE i

\* money_pattern: \$?(\d+(?:,\d{3})*(?:\.\d{2})?); the group of the first
\* match, None when nothing matches.  The leftmost match begins at the first
\* digit (or the "$" before it) and every quantifier is greedy.
MoneyMatch(s) ==
    IF \E i \in 1..Len(s) : IsDigit(s[i])
    THEN LET i == CHOOSE x \in 1..Len(s) :
                      IsDigit(s[x]) /\ \A y \in 1..(x - 1) : ~IsDigit(s[y])
             j == ThousandsEnd(s, DigitRunEnd(s, i) + 1)
             k == IF /\ j + 2 <= Len(s)
                     /\ s[j] = "."
                     /\ IsDigit(s[j + 1]) /\ IsDigit(s[j + 2])
                  THEN j + 3 ELSE j
         IN  Some(SubSeq(s, i, k - 1))
    ELSE None

\* (month|year|week|day), in the order of the alternation.
time_units == <<<<"m","o","n","t","h">>, <<"y","e","a","r">>, <<"w","e","e","k">>, <<"d","a","y">>>>

\* time_pattern matches with its digits starting at i.
TimeMatchAt(s, i) ==
    /\ IsDigit(s[i])
    /\ \E u \in 1..Len(time_units) :
          MatchAt(time_units[u], s, SkipSpace(s, DigitRunEnd(s, i) + 1))

\* time_pattern: (\d+)\s*(month|year|week|day)s?; the groups of the first
\* match, None when nothing matches.
TimeMatch(s) ==
    IF \E i \in 1..Len(s) : TimeMatchAt(s, i)
    THEN LET i == CHOOSE x \in 1..Len(s) :
                      TimeMatchAt(s, x) /\ \A y \in 1..(x - 1) : ~TimeMatchAt(s, y)
             j == DigitRunEnd(s, i)
             k == SkipSpace(s, j + 1)
             u == CHOOSE x \in 1..Len(time_units) :
                      /\ MatchAt(time_units[x], s, k)
                      /\ \A y \in 1..(x - 1) : ~MatchAt(time_units[y], s, k)
         IN  Some(<<SubSeq(s, i, j), time_units[u]>>)
    ELSE None

\* (?:,\d3)* from position i on.  The pattern is an f-string, whose {3} is
\* the number 3: the group is a comma, a digit and the character "3".
RECURSIVE OverrideGroupsEnd(_, _)
OverrideGroupsEnd(s, i) ==
    IF i + 2 <= Len(s) /\ s[i] = "," /\ IsDigit(s[i + 1]) /\ s[i + 2] = "3"
    THEN OverrideGroupsEnd(s, i + 3)
    ELSE i

\* Where the digits of fr"{name}\s*\$?(\d+..." begin when name matches at i,
\* 0 when the pattern does not match there.
OverrideDigitsAt(name, s, i) ==
    IF MatchAt(name, s, i)
    THEN LET k == SkipSpace(s, i + Len(name))
             d == IF k <= Len(s) /\ s[k] = "$" THEN k + 1 ELSE k
         IN  IF d <= Len(s) /\ IsDigit(s[d]) THEN d ELSE 0
    ELSE 0

\* re.search(fr"{name}\s*\$?(\d+(?:,\d{3})*(?:\.\d+)?)", s): group 1 of
\* the leftmost match, None when nothing matches.
OverrideMatch(name, s) ==
    IF \E i \in 1..Len(s) : OverrideDigitsAt(name, s, i) # 0
    THEN LET i == CHOOSE x \in 1..Len(s) :
                      /\ OverrideDigitsAt(name, s, x) # 0
                      /\ \A y \in 1..(x - 1) : OverrideDigitsAt(name, s, y) = 0
             d == OverrideDigitsAt(name, s, i)
             j == OverrideGroupsEnd(s, DigitRunEnd(s, d) + 1)
             k == IF j + 1 <= Len(s) /\ s[j] = "." /\ IsDigit(s[j + 1])
                  THEN DigitRunEnd(s, j + 1) + 1 ELSE j
         IN  Some(SubSeq(s, d, k - 1))
    ELSE None

\* The overrides loop of _extract_context: name.capitalize() -> float.
override_names == <<[name |-> <<"r","e","n","t">>, key |-> "Rent"],
                    [name |-> <<"u","t","i","l","i","t","i","e","s">>, key |-> "Utilities"]>>

Overrides(user_input) ==
    LET found == {n \in 1..Len(override_names) :
                     OverrideMatch(override_names[n].name, user_input) # None}
        keyOf(n) == override_names[n].key
    IN  [k \in {keyOf(n) : n \in found} |->
            LET n == CHOOSE x \in found : keyOf(x) = k
                g == OverrideMatch(override_names[n].name, user_input)[1]
            IN  PyFloat(RemoveCommas(g)).value]

confirm_keywords ==
    <<<<"i","n","v","e","s","t"," ","n","o","w">>, <<"e","x","e","c","u","t","e">>, <<"c","o","n","f","i","r","m">>, <<"d","o"," ","i","t">>, <<"d","e","p","o","s","i","t">>>>

explanation_keywords ==
    <<<<"e","x","p","l","a","i","n">>, <<"e","l","i","5">>, <<"s","i","m","p","l","e">>, <<"u","n","d","e","r","s","t","a","n","d">>, <<"c","l","a","r","i","f","y">>,
      <<"b","r","e","a","k"," ","d","o","w","n">>, <<"h","e","l","p"," ","m","e">>, <<"w","h","a","t"," ","d","o","e","s">>>>

\* One optional key of the context.
Field(cond, key, value) == IF cond THEN (key :> value) ELSE EmptyDict

RiskField(s) ==
    IF ReSearch(<<<<"l","o","w"," ","r","i","s","k">>, <<"c","o","n","s","e","r","v","a","t","i","v","e">>, <<"c","a","u","t","i","o","u","s">>>>, s)
    THEN "risk_tolerance" :> "low"
    ELSE IF ReSearch(<<<<"m","e","d","i","u","m"," ","r","i","s","k">>, <<"m","o","d","e","r","a","t","e">>>>, s)
    THEN "risk_tolerance" :> "medium"
    ELSE IF ReSearch(<<<<"h","i","g","h"," ","r","i","s","k">>, <<"a","g","g","r","e","s","s","i","v","e">>>>, s)
    THEN "risk_tolerance" :> "high"
    ELSE EmptyDict

GoalField(s) ==
    IF ReSearch(<<<<"r","e","t","i","r","e">>, <<"r","e","t","i","r","e","m","e","n","t">>>>, s)
    THEN "goal" :> "retirement"
    ELSE IF ReSearch(<<<<"h","o","u","s","e">>, <<"h","o","m","e">>, <<"d","o","w","n"," ","p","a","y","m","e","n","t">>>>, s)
    THEN "goal" :> "buy_home"
    ELSE IF ReSearch(<<<<"e","m","e","r","g","e","n","c","y"," ","f","u","n","d">>, <<"r","a","i","n","y"," ","d","a","y">>, <<"s","a","f","e","t","y"," ","n","e","t">>>>, s)
    THEN "goal" :> "emergency_fund"
    ELSE EmptyDict

_extract_context(user_input, query_type) ==
    LET money == MoneyMatch(user_input)
        time == TimeMatch(user_input)
        overrides == Overrides(user_input)
    IN  ("requires_multiple_agents" :> requires_multiple_agents(user_input))
        @@ Field(money # None, "amount",
                 IF money # None THEN RemoveCommas(money[1]) ELSE <<>>)
        @@ Field(time # None, "timeframe",
                 IF time # None THEN time[1] ELSE <<>>)
        @@ RiskField(user_input)
        @@ GoalField(user_input)
        @@ Field(ReSearch(<<<<"e","s","g">>, <<"e","t","h","i","c","a","l">>, <<"s","u","s","t","a","i","n","a","b","l","e">>,
                            <<"s","o","c","i","a","l","l","y"," ","r","e","s","p","o","n","s","i","b","l","e">>, <<"g","r","e","e","n">>>>, user_input),
                 "esg", TRUE)
        @@ Field(ReSearch(<<<<"h","o","l","d","i","n","g","s">>, <<"p","o","r","t","f","o","l","i","o">>,
                            <<"e","x","i","s","t","i","n","g"," ","i","n","v","e","s","t","m","e","n","t","s">>>>, user_input),
                 "include_holdings", TRUE)
        @@ Field(ReSearch(<<<<"e","x","p","e","n","s","e","s">>, <<"r","e","c","u","r","r","i","n","g"," ","b","i","l","l","s">>,
                            <<"f","i","x","e","d"," ","c","o","s","t","s">>>>, user_input),
                 "include_expenses", TRUE)
        @@ Field(DOMAIN overrides # {}, "override_fixed_expenses", overrides)
        @@ Field(AnyIn(confirm_keywords, user_input), "execute_plaid", TRUE)

_needs_explanation(user_input) == AnyIn(explanation_keywords, Lower(user_input))

_extract_simulation_params(user_input) ==
    IF Contains(<<"j","o","b"," ","l","o","s","s">>, user_input) \/ Contains(<<"q","u","i","t">>, user_input)
    THEN "scenario_type" :> "job_loss"
    ELSE IF Contains(<<"e","m","e","r","g","e","n","c","y">>, user_input)
    THEN "scenario_type" :> "emergency"
    ELSE IF Contains(<<"m","a","r","k","e","t"," ","c","r","a","s","h">>, user_input)
    THEN "scenario_type" :> "market_downturn"
    ELSE EmptyDict

\* PlannerAgent.process(state), for state["input"] = text.
PlannerProcess(text) ==
    LET user_input == Lower(text)
        query_type == _classify_query(user_input)
    IN  [query_type |-> query_type,
         context |-> _extract_context(user_input, query_type),
         requires_explanation |-> _needs_explanation(user_input),
         simulation_params |->
             IF query_type = "simulation"
             THEN Some(_extract_simulation_params(user_input))
             ELSE None]

---------------------------------------------------------------------------
(* Units of the numbers of the allocation handler.                         *)

\* Percentages are counted in 1/PctScale: horizon / 30 and the products by
\* 0.5 and 0.6 are then whole numbers.
PctScale == 30 * 10
\* Monthly averages are counted in 1/MoneyScale of a cent: a sum of cents
\* divided by a number of months from 1 to 4 is then a whole number.
MoneyScale == 3 * 4

---------------------------------------------------------------------------
(* agents/openai_utils.py                                                  *)

\* generate_response(prompt): some string on every path.  reply is what the
\* environment did: no API key, a completion, or an exception of the client.
ReplyKinds == {"no_key", "completion", "error"}
generate_response(prompt, reply) ==
    IF reply = "no_key"
    THEN [text |-> "[OpenAI API key not set] + prompt", prompt |-> Some(prompt)]
    ELSE IF reply = "completion"
    THEN [text |-> "completion", prompt |-> None]
    ELSE [text |-> "[OpenAI error]", prompt |-> None]

---------------------------------------------------------------------------
(* agents/finance_utils.py                                                 *)

\* date[:7]
Month(date) == SubSeq(date, 1, Min(7, Len(date)))
Abs(x) == IF x < 0 THEN -x ELSE x

\* The sum of f(tx) over the transactions of a list that satisfy keep.
SumTx(transactions, keep(_), f(_)) ==
    SumSeq([i \in 1..Len(transactions) |->
               IF keep(transactions[i]) THEN f(transactions[i]) ELSE 0])

TxSet(transactions) == {transactions[i] : i \in 1..Len(transactions)}

\* summarize_recurring_expenses: payee -> average monthly cost, for the
\* payees seen in two months or more.
summarize_recurring_expenses(transactions) ==
    LET txs == TxSet(transactions)
        monthsOf(name) == {Month(tx.date) : tx \in {t \in txs : t.name = name}}
        recurringNames ==
            {tx.name : tx \in {t \in txs : Cardinality(monthsOf(t.name)) >= 2}}
        total(name) ==
            LET isOf(tx) == tx.name = name
                cost(tx) == Abs(tx.amount)
            IN  SumTx(transactions, isOf, cost)
    IN  [name \in recurringNames |->
            (MoneyScale * total(name)) \div Cardinality(monthsOf(name))]

\* derive_monthly_income: the average, over the months that hold one, of
\* the positive transactions; 0.0 when there is none.
derive_monthly_income(transactions) ==
    LET txs == TxSet(transactions)
        monthly == {Month(tx.date) : tx \in {t \in txs : t.amount > 0}}
        positive(tx) == tx.amount > 0
        amountOf(tx) == tx.amount
    IN  IF monthly = {} THEN 0
        ELSE (MoneyScale * SumTx(transactions, positive, amountOf))
                 \div Cardinality(monthly)

---------------------------------------------------------------------------
(* agents/investment_agent.py                                              *)

\* A risk map whose high is 1.0.
risk_score_high_one(risk) ==
    CASE risk = "low"    -> (4 * PctScale) \div 10
      [] risk = "medium" -> (6 * PctScale) \div 10
      [] risk = "high"   -> PctScale
      [] OTHER           -> (6 * PctScale) \div 10

\* risk_map.get(risk, 0.6)
risk_score(risk) ==
    CASE risk = "low"    -> (4 * PctScale) \div 10
      [] risk = "medium" -> (6 * PctScale) \div 10
      [] risk = "high"   -> (8 * PctScale) \div 10
      [] OTHER           -> (6 * PctScale) \div 10

\* Python's truth value of an Optional number: None and 0 are false.
Truthy(opt) == opt # None /\ opt[1] # 0

\* min(horizon / 30, 1.0) if horizon else 0.5
time_score(horizon) ==
    IF Truthy(horizon)
    THEN Min((horizon[1] * PctScale) \div 30, PctScale)
    ELSE PctScale \div 2

\* The stock share with the two scores at full weight.
stock_pct_unweighted(risk, horizon) ==
    (3 * PctScale) \div 10
    + (6 * (risk_score(risk) + time_score(horizon))) \div 10

\* 0.3 + 0.6 * (0.5 * risk_score + 0.5 * time_score)
stock_pct(risk, horizon) ==
    (3 * PctScale) \div 10
    + (6 * (risk_score(risk) \div 2 + time_score(horizon) \div 2)) \div 10

\* 0.1 if horizon and horizon < 5 else 0.05
cash_pct(horizon) ==
    IF Truthy(horizon) /\ horizon[1] < 5
    THEN PctScale \div 10
    ELSE (5 * PctScale) \div 100

\* The bond share without the cash share taken off.
bond_pct_no_cash(risk, horizon) == Max(0, PctScale - stock_pct(risk, horizon))

\* max(0.0, 1.0 - stock_pct - cash_pct)
bond_pct(risk, horizon) ==
    Max(0, PctScale - stock_pct(risk, horizon) - cash_pct(horizon))

\* The horizon in years: int(timeframe[0]) when the unit starts with "year".
Horizon(timeframe) ==
    IF timeframe # None /\ StartsWith(timeframe[1][2], <<"y","e","a","r">>)
    THEN LET n == PyInt(timeframe[1][1])
         IN  IF n.ok THEN Some(n.value) ELSE None
    ELSE None

\* The amount with an unparseable string taken as 0.0.
Amount_unparseable_zero(amount_str) ==
    IF amount_str # None /\ amount_str[1] # <<>>
    THEN Some(PyFloat(amount_str[1]).value)
    ELSE None

\* float(amount_str) if amount_str else None, None on ValueError
Amount(amount_str) ==
    IF amount_str # None /\ amount_str[1] # <<>>
    THEN LET a == PyFloat(amount_str[1])
         IN  IF a.ok THEN Some(a.value) ELSE None
    ELSE None

\* str(h.get("type")).lower()
HoldingType(h) == IF "type" \in DOMAIN h THEN h.type ELSE "none"

\* sum(h.get("market_value", 0) for h in holdings if keep(h))
SumMarketValue(holdings, keep(_)) ==
    SumSeq([i \in 1..Len(holdings) |->
               IF keep(holdings[i]) THEN holdings[i].market_value ELSE 0])

\* value / total if total else 0, as a fraction num / den.
Share(value, total) ==
    IF total # 0 THEN [num |-> value, den |-> total] ELSE [num |-> 0, den |-> 1]

\* target_pct - current_pct alone: the factor total is left out.
Deficit_share_only(target_pct, current_pct, total) ==
    LET d == target_pct * current_pct.den - PctScale * current_pct.num
    IN  IF (current_pct.den > 0 /\ d > 0) \/ (current_pct.den < 0 /\ d < 0)
        THEN d \div current_pct.den
        ELSE 0

\* max(0.0, target_pct - current_pct) * total, in 1/PctScale of a cent.  The
\* difference is d / (PctScale * den): positive when d and den agree in sign.
Deficit(target_pct, current_pct, total) ==
    LET d == target_pct * current_pct.den - PctScale * current_pct.num
    IN  IF (current_pct.den > 0 /\ d > 0) \/ (current_pct.den < 0 /\ d < 0)
        THEN (d * total) \div current_pct.den
        ELSE 0

\* The context after fixed_expenses.update(override_expenses): the receiver
\* of update is the mapping summarize_recurring_expenses has just built, an
\* object of its own, and the mapping of the context is the argument, which
\* update reads; every other use of the context is a get.
ContextAfter_written(ctx, fixed_expenses) ==
    IF "override_fixed_expenses" \in DOMAIN ctx
    THEN [ctx EXCEPT !.override_fixed_expenses = fixed_expenses]
    ELSE ctx

ContextAfter(ctx, fixed_expenses) == ctx

\* What the environment answers during one call of InvestmentAgent.process:
\*   token         os.getenv("ACCESS_TOKEN") is a non-empty string
\*   balance       fetch_account_balance: None, or <<cents>>
\*   holdings      fetch_investment_holdings: None, or <<the list>>
\*   transactions  fetch_recent_transactions: None, or <<the list>>
\*   reply         what generate_response meets
\* A collaborator that is not called answers None.  Beside what process
\* returns, the record holds the context as the call leaves it, the facts of
\* the prompt (base) and the portfolio figures of the call (portfolio).
InvestmentProcess(ctx, e) ==
    LET amount_str == IF "amount" \in DOMAIN ctx THEN Some(ctx.amount) ELSE None
        execute_plaid == Get(ctx, "execute_plaid", FALSE)
        include_holdings == Get(ctx, "include_holdings", FALSE)
        include_expenses == Get(ctx, "include_expenses", FALSE)
        override_expenses == Get(ctx, "override_fixed_expenses", EmptyDict)
        risk == Get(ctx, "risk_tolerance", "medium")
        goal == IF "goal" \in DOMAIN ctx THEN Some(ctx.goal) ELSE None
        esg == Get(ctx, "esg", FALSE)
        timeframe == IF "timeframe" \in DOMAIN ctx THEN Some(ctx.timeframe) ELSE None
        access_token == execute_plaid /\ e.token
        starting_balance == IF access_token THEN e.balance ELSE None
        \* None when the fetch failed: no "or []" guards this one.
        current_holdings ==
            IF access_token /\ include_holdings THEN e.holdings ELSE Some(<<>>)
        transactions ==
            IF access_token /\ include_expenses /\ e.transactions # None
            THEN e.transactions[1] ELSE <<>>
        fixed_expenses ==
            Update(summarize_recurring_expenses(transactions),
                   [k \in DOMAIN override_expenses |->
                       MoneyScale * override_expenses[k]])
        monthly_income == derive_monthly_income(transactions)
        available_for_investment ==
            IF monthly_income # 0
            THEN Some(monthly_income - SumValues(fixed_expenses))
            ELSE None
        amount == Amount(amount_str)
        horizon == Horizon(timeframe)
        stock == stock_pct(risk, horizon)
        cash == cash_pct(horizon)
        bond == bond_pct(risk, horizon)
    IN  IF current_holdings = None
        THEN \* sum(... for h in current_holdings) over None
             [raised |-> "TypeError",
              context |-> ContextAfter(ctx, fixed_expenses)]
        ELSE
        LET holdings == current_holdings[1]
            balance == IF starting_balance # None THEN starting_balance[1] ELSE 0
            total_portfolio_value ==
                balance + SumMarketValue(holdings, LAMBDA h : TRUE)
            current_stock_value ==
                SumMarketValue(holdings,
                    LAMBDA h : HoldingType(h) \in {"equity", "etf", "stock"})
            current_bond_value ==
                SumMarketValue(holdings, LAMBDA h : HoldingType(h) = "bond")
            current_cash_value == balance
            current_stock_pct == Share(current_stock_value, total_portfolio_value)
            current_bond_pct == Share(current_bond_value, total_portfolio_value)
            current_cash_pct == Share(current_cash_value, total_portfolio_value)
            stock_deficit == Deficit(stock, current_stock_pct, total_portfolio_value)
            bond_deficit == Deficit(bond, current_bond_pct, total_portfolio_value)
            \* The facts the prompt is written from (the growth projections,
            \* powers of 1.07, 1.03 and 1.02, are left out of the prompt).
            base ==
                IF amount # None
                THEN [branch |-> "lump_sum",
                      stocks |-> Some(amount[1] * stock),
                      bonds |-> Some(amount[1] * bond),
                      cash |-> Some(amount[1] * cash),
                      projected |->
                          IF execute_plaid /\ starting_balance # None
                          THEN Some(starting_balance[1] + amount[1]) ELSE None,
                      esg |-> esg,
                      goal |-> goal,
                      rebalance |-> None]
                ELSE IF available_for_investment # None
                THEN [branch |-> "monthly",
                      stocks |-> Some(available_for_investment[1] * stock),
                      bonds |-> Some(available_for_investment[1] * bond),
                      cash |-> Some(available_for_investment[1] * cash),
                      projected |-> None,
                      esg |-> FALSE,
                      goal |-> None,
                      rebalance |->
                          IF holdings # <<>>
                          THEN Some([current_stock_pct |-> current_stock_pct,
                                     current_bond_pct |-> current_bond_pct,
                                     current_cash_pct |-> current_cash_pct,
                                     stock_deficit |-> stock_deficit,
                                     bond_deficit |-> bond_deficit])
                          ELSE None]
                ELSE [branch |-> "percent_only",
                      stocks |-> None,
                      bonds |-> None,
                      cash |-> None,
                      projected |-> None,
                      esg |-> FALSE,
                      goal |-> None,
                      rebalance |-> None]
        IN  [raised |-> "",
             context |-> ContextAfter(ctx, fixed_expenses),
             base |-> base,
             portfolio |->
                 [total_portfolio_value |-> total_portfolio_value,
                  current_stock_pct |-> current_stock_pct,
                  current_bond_pct |-> current_bond_pct,
                  current_cash_pct |-> current_cash_pct,
                  stock_deficit |-> stock_deficit,
                  bond_deficit |-> bond_deficit],
             result |-> generate_response(base, e.reply),
             confidence_score |-> 88,
             metadata |->
                 [amount |-> amount,
                  risk |-> risk,
                  goal |-> goal,
                  horizon |-> horizon,
                  stock_pct |-> stock,
                  bond_pct |-> bond,
                  cash_pct |-> cash,
                  holdings |-> holdings,
                  fixed_expenses |-> fixed_expenses,
                  monthly_income |-> monthly_income,
                  available_for_investment |-> available_for_investment,
                  starting_balance |-> starting_balance]]

---------------------------------------------------------------------------
(* The inputs of the allocation handler.                                   *)

\* The longest list of transactions, and of holdings, the environment
\* answers; the largest horizon of a context, in years.
MaxTx == 2
MaxHoldings == 1
MaxHorizon == 31

\* str(n) of an int.
RECURSIVE NatStr(_)
NatStr(n) ==
    IF n < 10 THEN <<Digits[n + 1]>>
    ELSE NatStr(n \div 10) \o <<Digits[(n % 10) + 1]>>
IntStr(n) == IF n < 0 THEN <<"-">> \o NatStr(-n) ELSE NatStr(n)

\* The sequences of at most n elements of S.
RECURSIVE SeqsUpTo(_, _)
SeqsUpTo(S, n) ==
    IF n = 0 THEN {<<>>}
    ELSE LET shorter == SeqsUpTo(S, n - 1)
         IN  shorter \cup {Append(s, x) : s \in shorter, x \in S}

TxUniverse ==
    {[name |-> n.name, amount |-> n.amount, date |-> d] :
        n \in {[name |-> "Payroll", amount |-> 100000],
               [name |-> "Rent", amount |-> -40000]},
        d \in {<<"2","0","2","6","-","0","9","-","0","1">>, <<"2","0","2","6","-","1","0","-","0","1">>}}

\* What fetch_investment_holdings builds: ticker, quantity, market_value.
HoldingUniverse ==
    {[ticker |-> "VTI", quantity |-> 2, market_value |-> 500],
     [ticker |-> "BND", quantity |-> 1, market_value |-> 0]}

\* What fetch_account_balance answers, in cents: nothing, zero, a credit,
\* and the balance of an overdrawn account.
Balances == {None, Some(0), Some(1000), Some(-500)}

\* The answers the environment can give to a call with context ctx, with
\* lists of at most maxHoldings holdings and maxTx transactions.
EnvsUpTo(ctx, maxHoldings, maxTx) ==
    LET execute == Get(ctx, "execute_plaid", FALSE)
        withHoldings == Get(ctx, "include_holdings", FALSE)
        withExpenses == Get(ctx, "include_expenses", FALSE)
    IN  UNION {
          {[token |-> t, balance |-> b, holdings |-> h, transactions |-> x,
            reply |-> r] :
              b \in (IF t THEN Balances ELSE {None}),
              h \in (IF t /\ withHoldings
                     THEN {None} \cup {Some(s) : s \in SeqsUpTo(HoldingUniverse, maxHoldings)}
                     ELSE {None}),
              x \in (IF t /\ withExpenses
                     THEN {None} \cup {Some(s) : s \in SeqsUpTo(TxUniverse, maxTx)}
                     ELSE {None}),
              r \in ReplyKinds} :
          t \in (IF execute THEN BOOLEAN ELSE {FALSE})}

Envs(ctx) == EnvsUpTo(ctx, MaxHoldings, MaxTx)

\* A context from its optional fields (None: the key is absent).
MakeContext(amount, risk, timeframe, execute, holdings, expenses, overrides) ==
    ("requires_multiple_agents" :> FALSE)
    @@ Field(amount # None, "amount", IF amount # None THEN amount[1] ELSE <<>>)
    @@ Field(risk # None, "risk_tolerance", IF risk # None THEN risk[1] ELSE "")
    @@ Field(timeframe # None, "timeframe",
             IF timeframe # None THEN timeframe[1] ELSE <<>>)
    @@ Field(execute, "execute_plaid", TRUE)
    @@ Field(holdings, "include_holdings", TRUE)
    @@ Field(expenses, "include_expenses", TRUE)
    @@ Field(overrides # None, "override_fixed_expenses",
             IF overrides # None THEN overrides[1] ELSE EmptyDict)

RiskChoices == {None, Some("low"), Some("medium"), Some("high"), Some("reckless")}

\* The amount strings of a context: absent, empty, parseable, and not.
AmountChoices ==
    {None, Some(<<>>), Some(<<"5","0","0","0">>), Some(<<"1","2",".","5","0">>), Some(<<"1",",","0","0","0">>),
     Some(<<"a","b","c">>)}

\* Every risk and every horizon, without data retrieval: the timeframe is
\* absent, a number of years (of cli.py's int, or of the planner's digits),
\* or a number of months.
MixContexts ==
    {MakeContext(a, r, t, FALSE, FALSE, FALSE, None) :
        a \in {None, Some(<<"5","0","0","0">>)},
        r \in RiskChoices,
        t \in {None, Some(<<<<"6">>, <<"m","o","n","t","h">>>>)}
              \cup {Some(<<IntStr(n), <<"y","e","a","r">>>>) : n \in (-MaxHorizon)..MaxHorizon}}

\* Every amount, flag and override, at two mixes: the default one, and
\* risk high with a horizon of 4 years.
FetchContexts ==
    {MakeContext(a, rt[1], rt[2], x, h, e, o) :
        a \in AmountChoices,
        rt \in {<<None, None>>,
                <<Some("high"), Some(<<<<"4">>, <<"y","e","a","r">>>>)>>},
        x \in BOOLEAN, h \in BOOLEAN, e \in BOOLEAN,
        o \in {None, Some("Rent" :> 120000)}}

---------------------------------------------------------------------------
(* The allocation handler on its own: one call of InvestmentAgent.process  *)
(* on every context, with every answer of the environment.                 *)

InitAlloc ==
    /\ pc = "Start"
    /\ input = <<>>
    /\ plan = None
    /\ context \in MixContexts \cup FetchContexts
    /\ env = EmptyDict
    /\ investment = None
    /\ pending = {}
    /\ completed = <<>>
    /\ results = EmptyDict
    /\ intermediate_results = <<>>
    /\ final_result = None
    /\ confidence_score = None
    /\ explained = FALSE

\* InvestmentAgent().process(state): it returns, or an exception leaves it.
InvestmentCall ==
    /\ pc = "Start"
    /\ \E e \in Envs(context) :
          /\ env' = e
          /\ investment' = Some(InvestmentProcess(context, e))
    /\ context' = investment'[1].context
    /\ pc' = IF investment'[1].raised = "" THEN "Returned" ELSE "Raised"
    /\ UNCHANGED <<input, plan, pending, completed, results,
                   intermediate_results, final_result, confidence_score,
                   explained>>

NextAlloc == InvestmentCall

SpecAlloc == InitAlloc /\ [][NextAlloc]_vars

---------------------------------------------------------------------------
(* The queries of the model: phrases joined by single spaces.              *)

Vocabulary == {
    <<"w","e","d","d","i","n","g">>, <<"B","o","n","u","s">>, <<"p","o","r","t","f","o","l","i","o">>, <<"f","o","r","e","c","a","s","t">>, <<"c","a","r","e","e","r"," ","c","h","a","n","g","e">>,
    <<"h","e","l","l","o">>, <<"E","x","p","l","a","i","n">>, <<"e","x","e","c","u","t","e">>, <<"e","x","p","e","n","s","e","s">>, <<"$","5",",","0","0","0">>,
    <<"1","0"," ","y","e","a","r","s">>, <<"3"," ","m","o","n","t","h","s">>, <<"c","o","n","s","e","r","v","a","t","i","v","e">>, <<"a","g","g","r","e","s","s","i","v","e">>,
    <<"r","e","t","i","r","e">>, <<"r","e","n","t"," ","1",",","2","0","0">>, <<"j","o","b"," ","l","o","s","s">> }

QueryVocabulary == {
    <<"w","e","d","d","i","n","g">>, <<"B","o","n","u","s">>, <<"p","o","r","t","f","o","l","i","o">>, <<"f","o","r","e","c","a","s","t">>, <<"h","e","l","l","o">>,
    <<"E","x","p","l","a","i","n">>, <<"e","x","p","l","a","i","n"," ","m","y"," ","b","o","n","u","s">>, <<"e","x","e","c","u","t","e">> }

\* The texts of at most n phrases of V.
RECURSIVE Texts(_, _)
Texts(V, n) ==
    IF n = 0 THEN {<<>>}
    ELSE LET shorter == Texts(V, n - 1)
         IN  shorter \cup V
             \cup {t \o <<" ">> \o w : t \in shorter \ {<<>>}, w \in V}

\* The queries of the planner specification, and of the orchestration.
PlannerQueries == Texts(Vocabulary, MaxWords)
Queries == Texts(QueryVocabulary, MaxQueryWords)

---------------------------------------------------------------------------
(* The planner on its own: every query of the vocabulary is planned.       *)

InitPlanner ==
    /\ pc = "Start"
    /\ input \in PlannerQueries
    /\ plan = None
    /\ context = EmptyDict
    /\ env = EmptyDict
    /\ investment = None
    /\ pending = {}
    /\ completed = <<>>
    /\ results = EmptyDict
    /\ intermediate_results = <<>>
    /\ final_result = None
    /\ confidence_score = None
    /\ explained = FALSE

\* planner.process(state)
Plan ==
    /\ pc = "Start"
    /\ plan' = Some(PlannerProcess(input))
    /\ context' = plan'[1].context
    /\ pc' = "Classified"
    /\ UNCHANGED <<input, env, investment, pending, completed, results,
                   intermediate_results, final_result, confidence_score,
                   explained>>

NextPlanner == Plan

SpecPlanner == InitPlanner /\ [][NextPlanner]_vars

---------------------------------------------------------------------------
(* The other handlers: each builds a prompt and calls generate_response.   *)

\* agents/LifeEventAgent.py
LifeEventProcess(text, ctx, reply) ==
    [raised |-> "",
     result |-> generate_response([request |-> text, context |-> ctx], reply),
     confidence_score |-> 85,
     metadata |-> [context |-> ctx]]

\* agents/budget_optimizer_agent.py
BudgetOptimizerProcess(ctx, reply) ==
    [raised |-> "",
     result |-> generate_response([context |-> ctx], reply),
     confidence_score |-> 82,
     metadata |-> [context |-> ctx]]

\* agents/simulation_agent.py
SimulationProcess(simulation_params, ctx, reply) ==
    LET params == IF simulation_params # None THEN simulation_params[1]
                  ELSE EmptyDict
        timeframe == IF "timeframe" \in DOMAIN ctx THEN Some(ctx.timeframe)
                     ELSE None
        scenario == Get(params, "scenario_type", "generic")
    IN  [raised |-> "",
         result |-> generate_response(
                        [scenario |-> scenario, timeframe |-> timeframe], reply),
         confidence_score |-> 78,
         metadata |-> [scenario |-> scenario, timeframe |-> timeframe]]

\* agents/explainer_agent.py; final_result is a text or None (the empty one).
ExplainerProcess(final, reply) ==
    [explanation |->
         IF final # None
         THEN generate_response([explain |-> final[1]], reply)
         ELSE [text |-> "Unable to generate an explanation.", prompt |-> None],
     confidence_score |-> 80,
     metadata |-> EmptyDict]

\* openai_utils.summarize_results: one response from the non-empty texts.
summarize_results(texts, reply) ==
    generate_response([summarize |-> texts], reply)

---------------------------------------------------------------------------
(* The orchestration graph that cli.py invokes (graph.invoke).  The graph  *)
(* itself is not among the sources: its steps follow the design of the     *)
(* orchestrator and of the aggregator.                                     *)

\* The category table, in the order of query_patterns.
Categories == [i \in 1..Len(query_patterns) |-> query_patterns[i].query_type]

\* The handlers a plan dispatches: the primary handler of the intent and,
\* when several categories matched, the handler of each of them.  The
\* default handler of "general" is a no-op that produces no HandlerResult.
DispatchedHandlers(text, p) ==
    IF p.query_type = "general" THEN {}
    ELSE IF p.context.requires_multiple_agents
    THEN {p.query_type}
         \cup {Categories[i] : i \in MatchedCategories(Lower(text))}
    ELSE {p.query_type}

\* The handler of a category, run on the state of the graph.
RunOf(c, text, p, ctx, e) ==
    CASE c = "life_event"          -> LifeEventProcess(text, ctx, e.reply)
      [] c = "budget_optimization" -> BudgetOptimizerProcess(ctx, e.reply)
      [] c = "investment_analysis" -> InvestmentProcess(ctx, e)
      [] c = "simulation"          ->
             SimulationProcess(p.simulation_params, ctx, e.reply)

\* What the environment can answer to the handler of a category.  Within
\* an orchestrated run the lists of holdings and of transactions are absent
\* or empty: no step of the graph reads them.
HandlerEnvs(c, ctx) ==
    IF c = "investment_analysis" THEN EnvsUpTo(ctx, 0, 0)
    ELSE {[token |-> FALSE, balance |-> None, holdings |-> None,
           transactions |-> None, reply |-> r] : r \in ReplyKinds}

\* The HandlerResult of a handler that returned.
HandlerResult(c, out) ==
    [category |-> c, text |-> out.result,
     confidence |-> out.confidence_score, metadata |-> out.metadata]

\* The results of the completed handlers, merged in category-table order.
RECURSIVE OrderedFrom(_, _)
OrderedFrom(i, res) ==
    IF i > Len(Categories) THEN <<>>
    ELSE (IF Categories[i] \in DOMAIN res THEN <<res[Categories[i]]>> ELSE <<>>)
         \o OrderedFrom(i + 1, res)

\* The merge in the order of completion.
OrderedResults_completion(res, order) == [i \in 1..Len(order) |-> res[order[i]]]

OrderedResults(res, order) == OrderedFrom(1, res)

RECURSIVE MinConfidence(_)
MinConfidence(list) ==
    IF Len(list) = 1 THEN list[1].confidence
    ELSE Min(list[1].confidence, MinConfidence(Tail(list)))

RECURSIVE MaxConfidence(_)
MaxConfidence(list) ==
    IF Len(list) = 1 THEN list[1].confidence
    ELSE Max(list[1].confidence, MaxConfidence(Tail(list)))

\* The aggregator with the maximum confidence for the minimum.
Aggregate_max(list, reply) ==
    IF list = <<>>
    THEN [final_text |-> [text |-> "No results available", prompt |-> None],
          confidence |-> 0,
          metadata |-> EmptyDict]
    ELSE IF Len(list) = 1
    THEN [final_text |-> list[1].text,
          confidence |-> list[1].confidence,
          metadata |-> list[1].metadata]
    ELSE [final_text |->
              summarize_results([i \in 1..Len(list) |-> list[i].text], reply),
          confidence |-> MaxConfidence(list),
          metadata |-> EmptyDict]

\* The aggregator: text, confidence and metadata of the ordered results.
Aggregate(list, reply) ==
    IF list = <<>>
    THEN [final_text |-> [text |-> "No results available", prompt |-> None],
          confidence |-> 0,
          metadata |-> EmptyDict]
    ELSE IF Len(list) = 1
    THEN [final_text |-> list[1].text,
          confidence |-> list[1].confidence,
          metadata |-> list[1].metadata]
    ELSE [final_text |->
              summarize_results([i \in 1..Len(list) |-> list[i].text], reply),
          confidence |-> MinConfidence(list),
          metadata |-> [c \in {list[i].category : i \in 1..Len(list)} |->
                           list[CHOOSE i \in 1..Len(list) :
                                    list[i].category = c].metadata]]

\* The explanation step with the explainer's own confidence merged in.
ExplainedConfidence_explainer(aggregated, explainer) == explainer

\* The confidence of the run after the explanation step.
ExplainedConfidence(aggregated, explainer) == aggregated

Init ==
    /\ pc = "Start"
    /\ input \in Queries
    /\ plan = None
    /\ context = EmptyDict
    /\ env = EmptyDict
    /\ investment = None
    /\ pending = {}
    /\ completed = <<>>
    /\ results = EmptyDict
    /\ intermediate_results = <<>>
    /\ final_result = None
    /\ confidence_score = None
    /\ explained = FALSE

\* Classified -> Dispatched: the handlers of the plan are dispatched.
Dispatch ==
    /\ pc = "Classified"
    /\ pending' = DispatchedHandlers(input, plan[1])
    /\ pc' = "Dispatched"
    /\ UNCHANGED <<input, plan, context, env, investment, completed, results,
                   intermediate_results, final_result, confidence_score,
                   explained>>

\* A dispatched handler runs to completion, in any order among those
\* pending; an exception of a handler leaves graph.invoke and ends the run.
RunHandler ==
    /\ pc = "Dispatched"
    /\ \E c \in pending : \E e \in HandlerEnvs(c, context) :
          LET out == RunOf(c, input, plan[1], context, e)
          IN  /\ env' = e
              /\ investment' = IF c = "investment_analysis" THEN Some(out)
                               ELSE investment
              /\ context' = IF c = "investment_analysis" THEN out.context
                            ELSE context
              /\ IF out.raised = ""
                 THEN /\ results' = (c :> HandlerResult(c, out)) @@ results
                      /\ completed' = Append(completed, c)
                      /\ pending' = pending \ {c}
                      /\ pc' = "Dispatched"
                 ELSE /\ pc' = "Aborted"
                      /\ UNCHANGED <<results, completed, pending>>
    /\ UNCHANGED <<input, plan, intermediate_results, final_result,
                   confidence_score, explained>>

\* Dispatched -> Aggregated: the ordered list is handed to the aggregator.
AggregateResults ==
    /\ pc = "Dispatched"
    /\ pending = {}
    /\ intermediate_results' = OrderedResults(results, completed)
    /\ \E r \in ReplyKinds :
          LET a == Aggregate(intermediate_results', r)
          IN  /\ final_result' = Some(a.final_text)
              /\ confidence_score' = Some(a.confidence)
    /\ pc' = "Aggregated"
    /\ UNCHANGED <<input, plan, context, env, investment, pending, completed,
                   results, explained>>

\* Aggregated -> Explained: the explanation replaces the user-facing text.
Explain ==
    /\ pc = "Aggregated"
    /\ plan[1].requires_explanation
    /\ \E r \in ReplyKinds :
          LET x == ExplainerProcess(final_result, r)
          IN  /\ final_result' = Some(x.explanation)
              /\ confidence_score' =
                     Some(ExplainedConfidence(confidence_score[1],
                                              x.confidence_score))
    /\ explained' = TRUE
    /\ pc' = "Explained"
    /\ UNCHANGED <<input, plan, context, env, investment, pending, completed,
                   results, intermediate_results>>

\* Aggregated -> Done without an explanation request, Explained -> Done.
Finish ==
    /\ \/ pc = "Aggregated" /\ ~plan[1].requires_explanation
       \/ pc = "Explained"
    /\ pc' = "Done"
    /\ UNCHANGED <<input, plan, context, env, investment, pending, completed,
                   results, intermediate_results, final_result,
                   confidence_score, explained>>

\* The loop of run_cli: the next query starts from a fresh initial_state.
NewQuery ==
    /\ pc = "Done"
    /\ input' \in Queries
    /\ pc' = "Start"
    /\ plan' = None
    /\ context' = EmptyDict
    /\ env' = EmptyDict
    /\ investment' = None
    /\ pending' = {}
    /\ completed' = <<>>
    /\ results' = EmptyDict
    /\ intermediate_results' = <<>>
    /\ final_result' = None
    /\ confidence_score' = None
    /\ explained' = FALSE

Next ==
    \/ Plan
    \/ Dispatch
    \/ RunHandler
    \/ AggregateResults
    \/ Explain
    \/ Finish
    \/ NewQuery

Spec == Init /\ [][Next]_vars

---------------------------------------------------------------------------
(* The claims.                                                             *)

\* The category table in the order the claims state, and the intents.
CategoryTable ==
    <<"life_event", "budget_optimization", "investment_analysis", "simulation">>
Intents == {CategoryTable[i] : i \in 1..Len(CategoryTable)} \cup {"general"}

\* The category named c has a pattern that matches the lowered query.
CategoryMatches(c, text) ==
    \E i \in 1..Len(query_patterns) :
        /\ query_patterns[i].query_type = c
        /\ \E p \in 1..Len(query_patterns[i].patterns) :
              \E k \in 1..Len(query_patterns[i].patterns[p]) :
                  Contains(query_patterns[i].patterns[p][k], Lower(text))

MatchedInTable(text) ==
    {i \in 1..Len(CategoryTable) : CategoryMatches(CategoryTable[i], text)}

\* C1: classify returns exactly one intent of the closed enumeration: the
\* first category of the table order (life_event, budget_optimization,
\* investment_analysis, simulation) with a matching pattern, and general if
\* and only if no category matches; a second call returns the same intent.
C1_ClassifyFirstMatch ==
    plan # None =>
        LET q == plan[1].query_type
            matched == MatchedInTable(input)
        IN  /\ q \in Intents
            /\ (q = "general") <=> (matched = {})
            /\ matched # {} =>
                  \E i \in matched :
                      /\ q = CategoryTable[i]
                      /\ \A j \in matched : i <= j
            /\ _classify_query(Lower(input)) = q

\* A query that matches two categories is classified as the earlier one.
C1_Witness ==
    /\ plan # None
    /\ plan[1].query_type = "budget_optimization"
    /\ MatchedInTable(input) = {2, 3}

\* C2: requires_multiple_agents is true if the text matches patterns of two
\* or more categories, and false if it matches those of one or of none.
C2_MultiAgentFlag ==
    plan # None =>
        (plan[1].context.requires_multiple_agents
            <=> \E i, j \in MatchedInTable(input) : i # j)

C2_Witness ==
    /\ plan # None
    /\ plan[1].context.requires_multiple_agents
    /\ Cardinality(MatchedInTable(input)) = 2

\* The call of the allocation handler returned.
Returned == investment # None /\ investment[1].raised = ""

\* C3: for every risk tolerance and every horizon, the target mix sums to 1
\* whenever bond_pct was not clamped to 0, and bond_pct is 0 when it was.
C3_MixSumsToOne ==
    Returned =>
        LET m == investment[1].metadata
        IN  IF m.stock_pct + m.cash_pct > PctScale
            THEN m.bond_pct = 0
            ELSE m.stock_pct + m.bond_pct + m.cash_pct = PctScale

C3_Witness ==
    /\ Returned
    /\ investment[1].metadata.risk = "high"
    /\ investment[1].metadata.horizon = Some(30)
    /\ investment[1].metadata.bond_pct > 0
    /\ investment[1].metadata.stock_pct + investment[1].metadata.bond_pct
           + investment[1].metadata.cash_pct = PctScale

\* The allocation handler returned for this risk and horizon in years.
MixAt(risk, years) ==
    /\ Returned
    /\ investment[1].metadata.risk = risk
    /\ investment[1].metadata.horizon = Some(years)

\* C4 as stated: at risk high and 30 years stock_pct lies in [0.85, 0.90];
\* at risk low and 1 year stock_pct lies in [0.30, 0.40] and cash_pct is
\* 0.10.
C4_ReferencePointsAsStated ==
    /\ MixAt("high", 30) =>
          /\ 85 * PctScale <= 100 * investment[1].metadata.stock_pct
          /\ 100 * investment[1].metadata.stock_pct <= 90 * PctScale
    /\ MixAt("low", 1) =>
          /\ 30 * PctScale <= 100 * investment[1].metadata.stock_pct
          /\ 100 * investment[1].metadata.stock_pct <= 40 * PctScale
          /\ 100 * investment[1].metadata.cash_pct = 10 * PctScale

\* C4, amended: at risk high and 30 years stock_pct is 0.84; at risk low and
\* 1 year stock_pct is 0.43 and cash_pct is 0.10.
C4_ReferencePoints ==
    /\ MixAt("high", 30) =>
          100 * investment[1].metadata.stock_pct = 84 * PctScale
    /\ MixAt("low", 1) =>
          /\ 100 * investment[1].metadata.stock_pct = 43 * PctScale
          /\ 100 * investment[1].metadata.cash_pct = 10 * PctScale

C4_Witness == MixAt("low", 1) /\ investment[1].metadata.bond_pct > 0

\* The amount of the context parses as a number.
AmountParses == "amount" \in DOMAIN context /\ PyFloat(context.amount).ok

\* The holdings were asked for and the fetch answered None.
HoldingsAbsent ==
    /\ Get(context, "execute_plaid", FALSE)
    /\ Get(context, "include_holdings", FALSE)
    /\ env.token
    /\ env.holdings = None

\* C5: the output branch follows a fixed precedence: an amount that parses
\* is split as a one-time lump sum; otherwise, with a monthly income, the
\* split is applied to the income minus the sum of the recurring expenses as
\* a monthly figure; otherwise the result carries the percentages and no
\* dollar figure.  An unparseable amount never raises an error.
C5_BranchPrecedence ==
    /\ Returned =>
          LET m == investment[1].metadata
              b == investment[1].base
              split(x) == /\ b.stocks = Some(x * m.stock_pct)
                          /\ b.bonds = Some(x * m.bond_pct)
                          /\ b.cash = Some(x * m.cash_pct)
          IN  IF AmountParses
              THEN /\ b.branch = "lump_sum"
                   /\ split(PyFloat(context.amount).value)
              ELSE IF m.monthly_income # 0
              THEN /\ b.branch = "monthly"
                   /\ split(m.monthly_income - SumValues(m.fixed_expenses))
              ELSE /\ b.branch = "percent_only"
                   /\ b.stocks = None /\ b.bonds = None /\ b.cash = None
    /\ (investment # None /\ investment[1].raised # "") => HoldingsAbsent

\* An amount that does not parse falls through to the monthly figure.
C5_Witness ==
    /\ Returned
    /\ "amount" \in DOMAIN context
    /\ context.amount # <<>>
    /\ ~PyFloat(context.amount).ok
    /\ investment[1].base.branch = "monthly"
    /\ investment[1].metadata.fixed_expenses # EmptyDict

\* C6: whenever the financial-data collaborator reports balance, holdings
\* or transactions as absent, the allocation handler still completes and
\* returns a HandlerResult.
C6_AbsenceNeverAborts == investment # None => investment[1].raised = ""

\* C7: every run passes through Start, Classified, Dispatched, Aggregated,
\* (Explained), Done in that order, never skipping or revisiting a state;
\* Explained is entered if and only if the query was detected as an
\* explanation request; and every run eventually reaches Done: it is in no
\* state but these six, from each of which the next one follows.
C7_RunReachesDone ==
    /\ [][/\ pc = "Start" => pc' = "Classified"
          /\ pc = "Classified" => pc' = "Dispatched"
          /\ pc = "Dispatched" => pc' \in {"Dispatched", "Aggregated"}
          /\ pc = "Aggregated" =>
                 pc' = IF _needs_explanation(input) THEN "Explained" ELSE "Done"
          /\ pc = "Explained" => pc' = "Done"
          /\ pc = "Done" => pc' = "Start"]_vars
    /\ [](pc \in {"Start", "Classified", "Dispatched", "Aggregated",
                   "Explained", "Done"})

\* C8: the confidence after the explanation step equals the confidence
\* aggregation produced before it.
C8_ExplanationKeepsConfidence ==
    [][(pc = "Aggregated" /\ pc' = "Explained")
           => confidence_score' = confidence_score]_vars

\* The explanation step ran on the merge of two results.
C8_Witness ==
    /\ pc = "Explained"
    /\ explained
    /\ Len(intermediate_results) = 2
    /\ confidence_score = Some(82)

\* The confidences of the results handed to the aggregator.
Confidences ==
    {intermediate_results[i].confidence : i \in 1..Len(intermediate_results)}

\* C9: the aggregated confidence is 0.0, with the text "No results
\* available", for no result, the sole result's confidence for one, and the
\* minimum over all results for several; it is always within [0, 1].
C9_AggregatedConfidence ==
    pc \in {"Aggregated", "Explained", "Done"} =>
        /\ confidence_score # None
        /\ 0 <= confidence_score[1] /\ confidence_score[1] <= 100
        /\ Len(intermediate_results) = 0 =>
              /\ confidence_score = Some(0)
              /\ pc = "Aggregated" =>
                     final_result[1].text = "No results available"
        /\ Len(intermediate_results) = 1 =>
              /\ confidence_score = Some(intermediate_results[1].confidence)
              /\ pc = "Aggregated" =>
                     final_result[1] = intermediate_results[1].text
        /\ Len(intermediate_results) > 1 =>
              /\ confidence_score[1] \in Confidences
              /\ \A c \in Confidences : confidence_score[1] <= c

C9_Witness ==
    /\ pc = "Aggregated"
    /\ Len(intermediate_results) = 2
    /\ intermediate_results[1].confidence = 85
    /\ intermediate_results[2].confidence = 78
    /\ confidence_score = Some(78)

\* The place of a category in the table order of the claims.
TableIndex(c) == CHOOSE i \in 1..Len(CategoryTable) : CategoryTable[i] = c

\* C10: when several handlers are dispatched, the list handed to the
\* aggregator is in category-table order whatever the order in which the
\* handlers completed, and holds the primary handler's result exactly once.
C10_MergeInTableOrder ==
    pc \in {"Aggregated", "Explained", "Done"} =>
        LET l == intermediate_results
        IN  /\ \A i, j \in 1..Len(l) :
                  i < j => TableIndex(l[i].category) < TableIndex(l[j].category)
            /\ {l[i].category : i \in 1..Len(l)}
                   = {completed[i] : i \in 1..Len(completed)}
            /\ plan[1].query_type # "general" =>
                  Cardinality({i \in 1..Len(l) :
                                  l[i].category = plan[1].query_type}) = 1

\* The later category completed first, and the list is in table order.
C10_Witness ==
    /\ pc = "Aggregated"
    /\ completed = <<"investment_analysis", "life_event">>
    /\ Len(intermediate_results) = 2
    /\ intermediate_results[1].category = "life_event"

\* C11: running the allocation handler on a context leaves every field of
\* it unchanged: after process returns, the context, its mapping
\* override_fixed_expenses included, equals the context before the call, on
\* every branch.
C11_ContextUnchanged ==
    [][(pc = "Start" /\ pc' = "Returned") => context' = context]_vars

\* The overrides were merged into recurring expenses of the transactions,
\* and the mapping of the context holds the overrides alone.
C11_Witness ==
    /\ Returned
    /\ "override_fixed_expenses" \in DOMAIN context
    /\ DOMAIN context.override_fixed_expenses = {"Rent"}
    /\ DOMAIN investment[1].metadata.fixed_expenses = {"Rent", "Payroll"}
    /\ investment[1].context = context

\* stock_pct from a risk and a time score: 0.3 + 0.6 * (0.5 * r + 0.5 * t).
StockFrom(risk, t) ==
    (3 * PctScale) \div 10 + (6 * (risk_score(risk) \div 2 + t \div 2)) \div 10

\* C12: for every horizon that is known, a horizon of 0 years included, the
\* allocation handler uses time_score = min(horizon / 30, 1.0) and
\* cash_pct = 0.10 exactly when horizon < 5 (0.05 otherwise); only when the
\* horizon is absent does it use time_score = 0.5 and cash_pct = 0.05.
C12_KnownHorizonScores ==
    Returned =>
        LET m == investment[1].metadata
        IN  IF m.horizon # None
            THEN /\ m.stock_pct =
                        StockFrom(m.risk,
                                  Min((m.horizon[1] * PctScale) \div 30, PctScale))
                 /\ m.cash_pct = IF m.horizon[1] < 5 THEN PctScale \div 10
                                 ELSE (5 * PctScale) \div 100
            ELSE /\ m.stock_pct = StockFrom(m.risk, PctScale \div 2)
                 /\ m.cash_pct = (5 * PctScale) \div 100

\* The sum of the market values of a list of holdings.
MarketValues(holdings) ==
    SumSeq([i \in 1..Len(holdings) |-> holdings[i].market_value])

\* The deficits of a returned call are those of the stated formula, lie
\* between 0 and the target share of the total value, and a total value of
\* zero gives shares of 0 and deficits of 0.
DeficitsAsClaimed ==
    LET m == investment[1].metadata
        p == investment[1].portfolio
        total == (IF m.starting_balance # None THEN m.starting_balance[1] ELSE 0)
                 + MarketValues(m.holdings)
        \* max(0, target - num / den) * total, in 1/PctScale of a cent
        formula(target, current) ==
            LET d == target * current.den - PctScale * current.num
            IN  IF d * current.den > 0 THEN (d * total) \div current.den ELSE 0
    IN  /\ p.total_portfolio_value = total
        /\ p.stock_deficit = formula(m.stock_pct, p.current_stock_pct)
        /\ p.bond_deficit = formula(m.bond_pct, p.current_bond_pct)
        /\ 0 <= p.stock_deficit /\ p.stock_deficit <= m.stock_pct * total
        /\ 0 <= p.bond_deficit /\ p.bond_deficit <= m.bond_pct * total
        /\ total = 0 =>
              /\ p.current_stock_pct.num = 0
              /\ p.current_bond_pct.num = 0
              /\ p.current_cash_pct.num = 0
              /\ p.stock_deficit = 0
              /\ p.bond_deficit = 0

\* C13 as stated: for every starting balance and every set of holdings
\* with non-negative market values, the deficits are max(0, target share -
\* current share) * total value, so both are non-negative and at most the
\* target share of the total value; a total value of zero gives shares of
\* 0, no division by zero, and deficits of 0.
C13_DeficitsAsStated == Returned => DeficitsAsClaimed

\* C13, amended: the same for every starting balance that is absent or
\* non-negative; an overdrawn balance makes the total value, and with it
\* both deficits, negative.
C13_Deficits ==
    (Returned /\ (investment[1].metadata.starting_balance # None
                    => investment[1].metadata.starting_balance[1] >= 0))
        => DeficitsAsClaimed

\* A balance and a holding of positive value: the prompt carries deficits.
C13_Witness ==
    /\ Returned
    /\ investment[1].metadata.starting_balance = Some(1000)
    /\ Len(investment[1].metadata.holdings) > 0
    /\ MarketValues(investment[1].metadata.holdings) > 0
    /\ investment[1].base.rebalance # None
    /\ investment[1].portfolio.stock_deficit > 0
    /\ investment[1].portfolio.bond_deficit > 0

C15_IntentAgreesWithFlag ==
    plan # None =>
        LET q == plan[1].query_type
            multi == plan[1].context.requires_multiple_agents
            matched == MatchedInTable(input)
        IN  /\ multi =>
                  /\ q # "general"
                  /\ matched # {}
                  /\ q = CategoryTable[CHOOSE i \in matched :
                                           \A j \in matched : i <= j]
            /\ q = "general" => ~multi

\* The two last categories of the table match: the intent is the earlier.
C15_Witness ==
    /\ plan # None
    /\ plan[1].context.requires_multiple_agents
    /\ MatchedInTable(input) = {3, 4}
    /\ plan[1].query_type = "investment_analysis"

=============================================================================
